---- MODULE Spec2Model ----
(***************************************************************************)
(* The warning-rule engine of the pillars dashboard                        *)
(* (src/pages/6_Warnings.py): the rule, condition and preference tables    *)
(* it reads, and evaluate_rules as the sequence of steps its code takes.   *)
(*                                                                         *)
(* A nullable SQL column / a Python Optional is a sequence of length 0     *)
(* (NULL, None) or 1 (the value), so that None = None is TRUE and          *)
(* None = 5 is FALSE, as in Python.                                        *)
(***************************************************************************)
EXTENDS Integers, Sequences, FiniteSets, TLC

\* ------------------------------------------------------------------ bounds

\* A store holds at least one rule and at most MaxRows rows of
\* warningRule and warningRuleCondition together.
MaxRows == 3

Nodes == {10, 20}
\* the nodes a stored condition may refer to
CondNodes == {10}
Values == {5, 7}
Users == {"u1"}
Sources == {"A", "B"}
\* the data source under which the stored selections of the store are kept
PrefSource == "A"
\* target values a stored condition may carry
Targets == {5}
\* scope filters a stored rule may carry (besides NULL)
Filters == {"", "A"}
\* operator strings a stored condition may carry
Operators == {"=", "!=", "<>", "IS NULL", "IS NOT NULL", "is null", "LIKE"}

\* the browser sessions of the administration pages
Sessions == {"s1", "s2"}

None == <<>>
Some(x) == <<x>>

\* ------------------------------------------------------------------ state

VARIABLES
    warningRule,            \* table dbo.warningRule: a set of rows
    warningRuleCondition,   \* table dbo.warningRuleCondition: a set of rows
    userNodePreference,     \* table dbo.userNodePreference: a set of rows
    pc,                     \* position of the evaluate_rules call
    user_name,              \* its arguments
    data_source,
    prefs,                  \* its locals
    rules,
    ri,                     \* index in rules of the rule r of the for loop
    conds,
    ci,                     \* number of conditions of conds already evaluated
    ok,
    hits,
    outcome,                \* what the call gave its caller
    before,                 \* history: the tables when the running call began,
                            \* and the number of store writes since then
    prev,                   \* history: the last call that ended
    category,               \* table dbo.category: a set of rows
    subCategory,            \* table dbo.subCategory
    pillarNode,             \* table dbo.pillarNode
    pillarNodeValue,        \* table dbo.pillarNodeValue
    pillarNodeValueMapping, \* table dbo.pillarNodeValueMapping
    session                 \* per browser session of an administration page:
                            \* the position of its script run, the run's
                            \* locals and st.session_state

vars == <<warningRule, warningRuleCondition, userNodePreference, pc, user_name,
          data_source, prefs, rules, ri, conds, ci, ok, hits, outcome, before, prev,
          category, subCategory, pillarNode, pillarNodeValue, pillarNodeValueMapping,
          session>>

store == <<warningRule, warningRuleCondition, userNodePreference>>

\* the history variables; the actions of evaluate_rules leave them alone, the
\* specifications that record history set them around those actions
history == <<before, prev>>

\* the taxonomy tables
taxonomy == <<category, subCategory, pillarNode, pillarNodeValue, pillarNodeValueMapping>>

\* the state of the administration pages, which evaluate_rules and the
\* preference and rule store operations leave alone
admin == <<taxonomy, session>>

\* ------------------------------------------------------------------ helpers

\* str.upper() on the operator strings of the model
Upper(s) ==
    CASE s = "is null" -> "IS NULL"
      [] s = "is not null" -> "IS NOT NULL"
      [] s = "like" -> "LIKE"
      [] OTHER -> s

\* Python truthiness of an Optional[str]: None and "" are falsy
Truthy(o) == o # None /\ o[1] # ""

\* dict.get(key): None when the key is absent
DictGet(d, k) == IF k \in DOMAIN d THEN Some(d[k]) ELSE None

\* ------------------------------------------------------------------ store reads

RECURSIVE OrderRules(_)
\* ORDER BY r.dateAdded DESC, r.id DESC
OrderRules(S) ==
    IF S = {} THEN <<>>
    ELSE LET first == CHOOSE a \in S : \A b \in S \ {a} :
                          \/ a.dateAdded > b.dateAdded
                          \/ a.dateAdded = b.dateAdded /\ a.id > b.id
         IN <<first>> \o OrderRules(S \ {first})

\* the columns of the SELECT of list_rules that evaluate_rules can read (the
\* aggregated "conditions" text is a seventh column, which it never reads)
list_rules_columns ==
    {"id", "name", "severity", "isActive", "dataSourceFilter", "dateAdded"}

\* list_rules(): one row per rule, GROUP BY the rule's columns
list_rules ==
    OrderRules({[col \in list_rules_columns |-> r[col]] : r \in warningRule})

RECURSIVE OrderConds(_)
\* ORDER BY c.id
OrderConds(S) ==
    IF S = {} THEN <<>>
    ELSE LET first == CHOOSE a \in S : \A b \in S \ {a} : a.id < b.id
         IN <<first>> \o OrderConds(S \ {first})

\* fetch_rule_conditions(rule_id); every condition's node exists (JOIN
\* dbo.pillarNode) as long as the taxonomy is the fixed set Nodes
fetch_rule_conditions(rule_id) ==
    OrderConds({c \in warningRuleCondition :
                    c.rule_id = rule_id /\ c.pillarNode_id \in Nodes})

\* fetch_user_pref_map with a WHERE clause on the user only
fetch_user_pref_map_AnySource(u, ds) ==
    LET rows == {p \in userNodePreference : p.userName = u}
    IN [n \in {p.pillarNode_id : p \in rows} |->
            (CHOOSE p \in rows : p.pillarNode_id = n).pillarNodeValue_id]

\* fetch_user_pref_map on a result that is read once per session: after the
\* session's first call a call gets no rows
fetch_user_pref_map_ReadOnce(u, ds) ==
    LET rows == {p \in userNodePreference :
                    p.userName = u /\ p.dataSource = ds /\ prev.kind = "none"}
    IN [n \in {p.pillarNode_id : p \in rows} |->
            (CHOOSE p \in rows : p.pillarNode_id = n).pillarNodeValue_id]

\* fetch_user_pref_map(user_name, data_source): {node: value} of the rows of
\* that user and data source
fetch_user_pref_map(u, ds) ==
    LET rows == {p \in userNodePreference : p.userName = u /\ p.dataSource = ds}
    IN [n \in {p.pillarNode_id : p \in rows} |->
            (CHOOSE p \in rows : p.pillarNode_id = n).pillarNodeValue_id]

\* ------------------------------------------------------------------ evaluate_rules

\* SkipsInactive without its test: every rule is taken as active
SkipsInactive_Never(r) == FALSE

\* "if not r.isActive: continue"
SkipsInactive(r) == ~r.isActive

\* SkipsOutOfScope with "is not None" for the truth test: a blank filter
\* is compared with the data source
SkipsOutOfScope_BlankCompared(r, ds) ==
    r.dataSourceFilter # None /\ r.dataSourceFilter[1] # ds

\* "if r.dataSourceFilter and r.dataSourceFilter != data_source: continue"
SkipsOutOfScope(r, ds) ==
    Truthy(r.dataSourceFilter) /\ r.dataSourceFilter[1] # ds

\* "int(c.pillarNodeValue_id) if pd.notna(c.pillarNodeValue_id) else None"
TargetOf(c) == c.pillarNodeValue_id

\* NotEqualMatches that asks for a stored selection
NotEqualMatches_NeedsSelection(val, target) == val # None /\ val # target

\* IsNullMatches with the test of IS NOT NULL
IsNullMatches_Inverted(val) == val # None

\* the four comparisons of the operator chain
EqualMatches(val, target) == val = target
NotEqualMatches(val, target) == val = None \/ val # target
IsNullMatches(val) == val = None
IsNotNullMatches(val) == val # None

\* OkAfter whose final else leaves ok as it is
OkAfter_ElseKeepsOk(okBefore, c, p) ==
    LET val == DictGet(p, c.pillarNode_id)
        op == Upper(c.operator)
        target == c.pillarNodeValue_id
    IN  IF op = "=" THEN okBefore /\ (val = target)
        ELSE IF op \in {"!=", "<>"} THEN okBefore /\ (val = None \/ val # target)
        ELSE IF op = "IS NULL" THEN okBefore /\ (val = None)
        ELSE IF op = "IS NOT NULL" THEN okBefore /\ (val # None)
        ELSE okBefore

\* the value of ok after the body of "for c in conds" has run on c
OkAfter(okBefore, c, p) ==
    LET val == DictGet(p, c.pillarNode_id)
        op == Upper(c.operator)
        target == TargetOf(c)
    IN  IF op = "=" THEN okBefore /\ EqualMatches(val, target)
        ELSE IF op \in {"!=", "<>"} THEN okBefore /\ NotEqualMatches(val, target)
        ELSE IF op = "IS NULL" THEN okBefore /\ IsNullMatches(val)
        ELSE IF op = "IS NOT NULL" THEN okBefore /\ IsNotNullMatches(val)
        ELSE FALSE

\* r.<attr> on a row of rules.itertuples(): defined for the columns of the
\* frame only
HasAttr(r, attr) == attr \in DOMAIN r

NoOutcome == [kind |-> "none"]

\* no call is running / no call has ended yet
NoHistory == [kind |-> "none"]

\* a session whose script run has ended
Idle == [pc |-> "idle"]

\* no taxonomy is stored and no administration page is in use
AdminIdle ==
    /\ category = {}
    /\ subCategory = {}
    /\ pillarNode = {}
    /\ pillarNodeValue = {}
    /\ pillarNodeValueMapping = {}
    /\ session = [s \in Sessions |-> Idle]

\* the locals of a call that is not running, or that the loop has not set yet
IdleLocals ==
    /\ user_name = ""
    /\ data_source = ""
    /\ prefs = <<>>
    /\ rules = <<>>
    /\ ri = 0
    /\ conds = <<>>
    /\ ci = 0
    /\ ok = TRUE
    /\ hits = <<>>
    /\ outcome = NoOutcome

\* evaluate_rules(u, ds) is called: prefs = fetch_user_pref_map(...)
Called(u, ds) ==
    /\ pc = "idle"
    /\ pc' = "list_rules"
    /\ user_name' = u
    /\ data_source' = ds
    /\ prefs' = fetch_user_pref_map(u, ds)
    /\ UNCHANGED <<rules, ri, conds, ci, ok, hits, outcome>>

EvalCall(u, ds) == Called(u, ds) /\ UNCHANGED <<store, history, admin>>

\* rules = list_rules(); hits = []
EvalListRules ==
    /\ pc = "list_rules"
    /\ pc' = "for_rule"
    /\ rules' = list_rules
    /\ ri' = 1
    /\ hits' = <<>>
    /\ UNCHANGED <<store, history, admin, user_name, data_source, prefs, conds, ci, ok, outcome>>

\* the loop goes on to the next rule (the locals of the inner loop are dead)
NextRule ==
    /\ pc' = "for_rule"
    /\ ri' = ri + 1
    /\ conds' = <<>>
    /\ ci' = 0
    /\ ok' = TRUE

AtRule == pc = "for_rule" /\ ri <= Len(rules)

\* EvalSkipInactive that also deletes the inactive rule it skips
EvalSkipInactive_Deletes ==
    /\ AtRule
    /\ SkipsInactive(rules[ri])
    /\ NextRule
    /\ warningRule' = {r \in warningRule : r.id # rules[ri].id}
    /\ UNCHANGED <<warningRuleCondition, userNodePreference, history, admin, user_name,
                   data_source, prefs, rules, hits, outcome>>

\* an inactive rule is skipped
EvalSkipInactive ==
    /\ AtRule
    /\ SkipsInactive(rules[ri])
    /\ NextRule
    /\ UNCHANGED <<store, history, admin, user_name, data_source, prefs, rules, hits, outcome>>

\* a rule scoped to another data source is skipped
EvalSkipOutOfScope ==
    /\ AtRule
    /\ ~SkipsInactive(rules[ri])
    /\ SkipsOutOfScope(rules[ri], data_source)
    /\ NextRule
    /\ UNCHANGED <<store, history, admin, user_name, data_source, prefs, rules, hits, outcome>>

\* conds = fetch_rule_conditions(int(r.id)); ok = True
EvalFetchConds ==
    /\ AtRule
    /\ ~SkipsInactive(rules[ri])
    /\ ~SkipsOutOfScope(rules[ri], data_source)
    /\ conds' = fetch_rule_conditions(rules[ri].id)
    /\ ok' = TRUE
    /\ ci' = 0
    /\ pc' = IF Len(conds') = 0 THEN "if_ok" ELSE "for_cond"
    /\ UNCHANGED <<store, history, admin, user_name, data_source, prefs, rules, ri, hits, outcome>>

\* one pass of "for c in conds", with its "if not ok: break"
EvalCond ==
    /\ pc = "for_cond"
    /\ ok' = OkAfter(ok, conds[ci + 1], prefs)
    /\ ci' = ci + 1
    /\ pc' = IF ~ok' \/ ci' = Len(conds) THEN "if_ok" ELSE "for_cond"
    /\ UNCHANGED <<store, history, admin, user_name, data_source, prefs, rules, ri, conds, hits, outcome>>

\* "if ok: hits.append({"id": r.id, ..., "message": r.message})": building the
\* dict reads four attributes of r; a missing one raises AttributeError out of
\* evaluate_rules, which has no handler
EvalIfOk ==
    /\ pc = "if_ok"
    /\ LET r == rules[ri]
       IN  IF ~ok
           THEN NextRule /\ UNCHANGED <<hits, outcome>>
           ELSE IF \A a \in {"id", "name", "severity", "message"} : HasAttr(r, a)
           THEN /\ hits' = Append(hits, [id |-> r.id, name |-> r.name,
                                         severity |-> r.severity, message |-> r.message])
                /\ NextRule
                /\ UNCHANGED outcome
           ELSE /\ pc' = "raised"
                /\ outcome' = [kind |-> "AttributeError"]
                /\ UNCHANGED <<ri, conds, ci, ok, hits>>
    /\ UNCHANGED <<store, history, admin, user_name, data_source, prefs, rules>>

\* "return pd.DataFrame(hits)"
EvalReturn ==
    /\ pc = "for_rule"
    /\ ri > Len(rules)
    /\ pc' = "done"
    /\ outcome' = [kind |-> "return", value |-> hits]
    /\ UNCHANGED <<store, history, admin, user_name, data_source, prefs, rules, ri, conds, ci, ok, hits>>

\* the caller has the outcome; the call's frame is gone
FrameGone ==
    /\ pc \in {"done", "raised"}
    /\ pc' = "idle"
    /\ user_name' = ""
    /\ data_source' = ""
    /\ prefs' = <<>>
    /\ rules' = <<>>
    /\ ri' = 0
    /\ conds' = <<>>
    /\ ci' = 0
    /\ ok' = TRUE
    /\ hits' = <<>>
    /\ outcome' = NoOutcome

EvalEnd == FrameGone /\ UNCHANGED <<store, history, admin>>

\* ------------------------------------------------------------------ stores

RuleName(id) == CASE id = 1 -> "R1" [] id = 2 -> "R2" [] id = 3 -> "R3" [] OTHER -> "R4"
RuleMessage(id) == CASE id = 1 -> "M1" [] id = 2 -> "M2" [] id = 3 -> "M3" [] OTHER -> "M4"
SEVERITIES == <<"Info", "Warning", "Error">>

OptionalOf(S) == {None} \cup {Some(x) : x \in S}

\* the rule tables of n rules, ids 1..n, each added after the one before
RuleTables(n) ==
    {{[id |-> i, name |-> RuleName(i), message |-> RuleMessage(i),
       severity |-> SEVERITIES[(i % 3) + 1], isActive |-> a[i],
       dataSourceFilter |-> f[i], dateAdded |-> i] : i \in 1..n} :
        a \in [1..n -> BOOLEAN], f \in [1..n -> OptionalOf(Filters)]}

\* the condition tables of m conditions, ids 1..m, on the rules 1..n
ConditionTables(n, m) ==
    {{[id |-> j, rule_id |-> c[j][1], pillarNode_id |-> c[j][2],
       operator |-> c[j][3], pillarNodeValue_id |-> c[j][4]] : j \in 1..m} :
        c \in [1..m -> (1..n) \X CondNodes \X Operators \X OptionalOf(Targets)]}

\* the preference tables: the selections of one user under PrefSource
PreferenceTables ==
    {{[userName |-> u, dataSource |-> PrefSource, pillarNode_id |-> n,
       pillarNodeValue_id |-> sel[n]] : n \in DOMAIN sel} :
        u \in Users, sel \in UNION {[D -> Values] : D \in SUBSET Nodes}}

Init ==
    /\ \E n \in 1..MaxRows : \E m \in 0..(MaxRows - n) :
          /\ warningRule \in RuleTables(n)
          /\ warningRuleCondition \in ConditionTables(n, m)
    /\ userNodePreference \in PreferenceTables
    /\ pc = "idle"
    /\ IdleLocals
    /\ before = NoHistory
    /\ prev = NoHistory
    /\ AdminIdle

Next ==
    \/ \E u \in Users, ds \in Sources : EvalCall(u, ds)
    \/ EvalListRules
    \/ EvalSkipInactive
    \/ EvalSkipOutOfScope
    \/ EvalFetchConds
    \/ EvalCond
    \/ EvalIfOk
    \/ EvalReturn
    \/ EvalEnd

Spec == Init /\ [][Next]_vars

\* ------------------------------------------------------------------ vocabulary of the claims

\* the call has ended, with a result or with an exception
Finished == pc \in {"done", "raised"}

\* conds[1..ci] are the conditions the inner loop has evaluated for the rule
\* rules[ri]; the j-th of them matched iff the loop went past it with ok true
Matched(j) == j < ci \/ (j = ci /\ ok)

\* a selection is stored for the node of condition c in the loaded map
Selected(c) == c.pillarNode_id \in DOMAIN prefs

\* a rule is in scope of the queried data source
InScope(r) ==
    \/ r.dataSourceFilter = None
    \/ r.dataSourceFilter = Some("")
    \/ r.dataSourceFilter = Some(data_source)

ConditionsOf(r) == {c \in warningRuleCondition : c.rule_id = r.id}

\* c is satisfied by the loaded selections
Satisfied(c) == OkAfter(TRUE, c, prefs)

\* r is active, in scope, and all of its conditions are satisfied
Fires(r) == r.isActive /\ InScope(r) /\ \A c \in ConditionsOf(r) : Satisfied(c)

\* the call returned a hit list that holds a hit of rule r
Hit(r) ==
    /\ outcome.kind = "return"
    /\ \E i \in 1..Len(outcome.value) : outcome.value[i].id = r.id

\* ------------------------------------------------------------------ C1

\* C1: whenever at least one active, in-scope rule has all of its conditions
\* satisfied, evaluate_rules completes without error and returns one hit per
\* such rule, carrying the rule's stored id, name, severity and message.
C1_FiringRulesAreReturned ==
    (Finished /\ \E r \in warningRule : Fires(r)) =>
        /\ outcome.kind = "return"
        /\ Len(outcome.value) = Cardinality({r \in warningRule : Fires(r)})
        /\ \A r \in warningRule : Fires(r) =>
              \E i \in 1..Len(outcome.value) :
                  outcome.value[i] = [id |-> r.id, name |-> r.name,
                                      severity |-> r.severity, message |-> r.message]

\* ------------------------------------------------------------------ C2

\* C2: a condition with operator '=' or '!=' and no target value never
\* matches, its rule is absent from the hit list, and evaluation does not
\* raise on it.
C2_MalformedNeverMatches ==
    \A j \in 1..ci :
        (conds[j].operator \in {"=", "!="} /\ conds[j].pillarNodeValue_id = None) =>
            /\ ~Matched(j)
            /\ pc # "raised"

\* ------------------------------------------------------------------ C3

\* C3: a condition 'node = V' matches iff a selection is stored for the node
\* and equals the target; with no selection stored it never matches,
\* whatever its target.
C3_EqualIffSelectedAndEqual ==
    \A j \in 1..ci :
        conds[j].operator = "=" =>
            (Matched(j) <=> /\ Selected(conds[j])
                            /\ Some(prefs[conds[j].pillarNode_id]) = conds[j].pillarNodeValue_id)

\* ------------------------------------------------------------------ C4

\* C4: a condition 'node != V' matches when the node has no stored
\* selection, matches when the stored selection is a value other than V, and
\* does not match when the stored selection equals V.
C4_NotEqualIsPermissive ==
    \A j \in 1..ci :
        (conds[j].operator \in {"!=", "<>"} /\ conds[j].pillarNodeValue_id # None) =>
            LET c == conds[j]
                V == c.pillarNodeValue_id[1]
            IN  /\ ~Selected(c) => Matched(j)
                /\ (Selected(c) /\ prefs[c.pillarNode_id] # V) => Matched(j)
                /\ (Selected(c) /\ prefs[c.pillarNode_id] = V) => ~Matched(j)

\* a '!=' condition with a target matched on a node without selection, and
\* the rule went on to its hit
C4_Witness ==
    /\ pc = "if_ok" /\ ok /\ ci >= 1
    /\ conds[ci].operator = "!="
    /\ conds[ci].pillarNodeValue_id # None
    /\ ~Selected(conds[ci])

\* ------------------------------------------------------------------ C5

\* C5: 'node IS NULL' matches iff no selection is stored for the node and
\* 'node IS NOT NULL' matches iff one is stored, whatever target the
\* condition carries; so the two never both match on one node, and a rule
\* holding both on one node never has all its conditions matched.
C5_NullChecksAreComplements ==
    /\ \A j \in 1..ci :
          /\ conds[j].operator = "IS NULL" => (Matched(j) <=> ~Selected(conds[j]))
          /\ conds[j].operator = "IS NOT NULL" => (Matched(j) <=> Selected(conds[j]))
    /\ \A j, k \in 1..ci :
          (/\ conds[j].operator = "IS NULL"
           /\ conds[k].operator = "IS NOT NULL"
           /\ conds[j].pillarNode_id = conds[k].pillarNode_id) =>
              ~(Matched(j) /\ Matched(k))

\* an IS NULL condition that carries a target value was evaluated on a node
\* with a stored selection, and did not match
C5_Witness ==
    /\ pc = "if_ok" /\ ~ok /\ ci >= 1
    /\ conds[ci].operator = "IS NULL"
    /\ conds[ci].pillarNodeValue_id # None
    /\ Selected(conds[ci])

\* ------------------------------------------------------------------ C6

\* C6: an active, in-scope rule appears in the hit list iff every one of its
\* conditions matches the user's preference map.
C6_HitIffAllConditionsMatch ==
    Finished =>
        \A r \in warningRule :
            (r.isActive /\ InScope(r)) =>
                (Hit(r) <=> \A c \in ConditionsOf(r) : Satisfied(c))

\* ------------------------------------------------------------------ C7

\* C7: every rule with zero conditions that is active and in scope is
\* included in the hit list, for every preference state.
C7_EmptyRuleAlwaysHit ==
    Finished =>
        \A r \in warningRule :
            (r.isActive /\ InScope(r) /\ ConditionsOf(r) = {}) => Hit(r)

\* ------------------------------------------------------------------ C8

\* C8: a rule whose isActive flag is false never appears in the hit list:
\* the loop never evaluates its conditions or builds its hit, and no hit of
\* the list carries its id.
C8_InactiveNeverHit ==
    /\ pc \in {"for_cond", "if_ok", "raised"} => rules[ri].isActive
    /\ \A i \in 1..Len(hits) : \A r \in warningRule : r.id = hits[i].id => r.isActive
    /\ \A r \in warningRule : ~r.isActive => ~Hit(r)

\* an evaluation returned while the store holds an inactive rule that is in
\* scope and has no conditions
C8_Witness ==
    /\ pc = "done"
    /\ \E r \in warningRule : ~r.isActive /\ InScope(r) /\ ConditionsOf(r) = {}

\* ------------------------------------------------------------------ C9

\* C9: an active rule passes the scope check iff its dataSourceFilter is
\* NULL or blank or equals the queried data source; a rule out of scope is
\* never evaluated and never in the hit list.
C9_ScopeCheck ==
    /\ [][(AtRule /\ rules[ri].isActive) =>
              ((pc' \in {"for_cond", "if_ok"} /\ ri' = ri) <=> InScope(rules[ri]))]_vars
    /\ [](/\ pc \in {"for_cond", "if_ok", "raised"} => InScope(rules[ri])
          /\ \A r \in warningRule : ~InScope(r) => ~Hit(r))

\* an evaluation for one data source returned while the store holds an
\* active rule without conditions that is scoped to another data source
C9_Witness ==
    /\ pc = "done"
    /\ \E r \in warningRule :
          /\ r.isActive /\ ConditionsOf(r) = {}
          /\ Truthy(r.dataSourceFilter) /\ r.dataSourceFilter # Some(data_source)

\* ------------------------------------------------------------------ C10

KnownOperators == {"=", "!=", "<>", "IS NULL", "IS NOT NULL"}

\* C10 as stated: a condition whose operator string is none of the five
\* known ones never matches.
C10_OtherOperatorNeverMatches ==
    \A j \in 1..ci : conds[j].operator \notin KnownOperators => ~Matched(j)

\* C10, amended: a condition whose operator string, upper-cased, is none of
\* the five known ones never matches, and the loop goes on to the next rule
\* without raising and without a hit.
C10_OtherOperatorUpperCased ==
    /\ [](\A j \in 1..ci : Upper(conds[j].operator) \notin KnownOperators => ~Matched(j))
    /\ [][(pc = "if_ok" /\ ~ok) =>
              (pc' = "for_rule" /\ ri' = ri + 1 /\ hits' = hits /\ outcome' = outcome)]_vars

\* the first rule of the list is active and in scope and has a condition
\* with the operator LIKE, and the loop is on the second rule
C10_Witness ==
    /\ pc = "if_ok" /\ ri = 2
    /\ rules[1].isActive /\ InScope(rules[1])
    /\ \E c \in warningRuleCondition : c.rule_id = rules[1].id /\ c.operator = "LIKE"

\* ================================================================== the caller

\* rows of warningRule and warningRuleCondition together in the stores of
\* SpecCaller
MaxCallerRows == 2
\* what the two text inputs of the sidebar may hold when "Run preview" is
\* clicked
PreviewUsers == {"", "u1"}
PreviewSources == {"", "A", "B "}

\* str.strip() on the input strings of the model
Strip(s) == CASE s = " " -> "" [] s = "B " -> "B" [] OTHER -> s

\* the button "Run preview": a blank data source gets a warning and no call,
\* else evaluate_rules is called with the stripped inputs
RunPreview(prev_user, prev_source) ==
    /\ Strip(prev_source) # ""
    /\ EvalCall(Strip(prev_user), Strip(prev_source))

\* ReadRaises with the exception caught and the hits so far returned
ReadRaises_Swallowed ==
    /\ pc' = "done"
    /\ outcome' = [kind |-> "return", value |-> hits]

\* a statement sent to the store raises; evaluate_rules has no handler, the
\* exception leaves it
ReadRaises ==
    /\ pc' = "raised"
    /\ outcome' = [kind |-> "DBAPIError"]

\* fetch_user_pref_map raises
PreviewPrefsRaise(prev_user, prev_source) ==
    /\ pc = "idle"
    /\ Strip(prev_source) # ""
    /\ user_name' = Strip(prev_user)
    /\ data_source' = Strip(prev_source)
    /\ ReadRaises
    /\ UNCHANGED <<store, history, admin, prefs, rules, ri, conds, ci, ok, hits>>

\* list_rules raises
EvalListRulesRaises ==
    /\ pc = "list_rules"
    /\ ReadRaises
    /\ UNCHANGED <<store, history, admin, user_name, data_source, prefs, rules, ri,
                   conds, ci, ok, hits>>

\* fetch_rule_conditions raises, for a rule that is neither skipped as
\* inactive nor as out of scope
EvalFetchCondsRaises ==
    /\ AtRule
    /\ ~SkipsInactive(rules[ri])
    /\ ~SkipsOutOfScope(rules[ri], data_source)
    /\ ReadRaises
    /\ UNCHANGED <<store, history, admin, user_name, data_source, prefs, rules, ri,
                   conds, ci, ok, hits>>

\* what the sidebar shows for the outcome of the call: an exception that
\* leaves evaluate_rules leaves the script, else the empty frame gets the
\* success message and any other frame is written
Shown(o) ==
    IF o.kind # "return" THEN "exception"
    ELSE IF o.value = <<>> THEN "No rules triggered." ELSE "df_hits"

InitCaller ==
    /\ \E n \in 1..MaxCallerRows : \E m \in 0..(MaxCallerRows - n) :
          /\ warningRule \in RuleTables(n)
          /\ warningRuleCondition \in ConditionTables(n, m)
    /\ userNodePreference \in PreferenceTables
    /\ pc = "idle"
    /\ IdleLocals
    /\ before = NoHistory
    /\ prev = NoHistory
    /\ AdminIdle

NextCaller ==
    \/ \E pu \in PreviewUsers, ps \in PreviewSources : RunPreview(pu, ps)
    \/ \E pu \in PreviewUsers, ps \in PreviewSources : PreviewPrefsRaise(pu, ps)
    \/ EvalListRules
    \/ EvalListRulesRaises
    \/ EvalSkipInactive
    \/ EvalSkipOutOfScope
    \/ EvalFetchConds
    \/ EvalFetchCondsRaises
    \/ EvalCond
    \/ EvalIfOk
    \/ EvalReturn
    \/ EvalEnd

SpecCaller == InitCaller /\ [][NextCaller]_vars

\* ------------------------------------------------------------------ C11

\* C11: a call of evaluate_rules with an empty user or an empty data source
\* fails at once with InvalidInput: no rule is evaluated and no hit list, not
\* even an empty one, is returned.
C11_EmptyArgumentIsInvalidInput ==
    (pc # "idle" /\ (user_name = "" \/ data_source = "")) =>
        (pc = "raised" /\ outcome.kind = "InvalidInput")

\* ------------------------------------------------------------------ C12

\* C12: a store read that fails during an evaluation (of the selections, of
\* the rule list, of the conditions of any rule) ends the call with that
\* error and without a hit list: a result is returned only from the end of
\* the loop over the rules, and a failed call is never shown as "No rules
\* triggered.".
C12_ReadErrorPropagates ==
    /\ [][(outcome.kind # "return" /\ outcome'.kind = "return") =>
              (pc = "for_rule" /\ ri > Len(rules) /\ outcome'.value = hits)]_vars
    /\ [](outcome.kind = "DBAPIError" =>
              (pc = "raised" /\ Shown(outcome) = "exception"))

\* a read failed after the rule list was read
C12_Witness ==
    /\ pc = "raised" /\ outcome.kind = "DBAPIError"
    /\ ri = 2 /\ Len(rules) = 2

\* ================================================================== the preference store

\* the users whose selections the preference page edits
PrefUsers == {"u1", "u2"}

\* the call of evaluate_rules: its position, arguments, locals and outcome
evalstate == <<pc, user_name, data_source, prefs, rules, ri, conds, ci, ok, hits, outcome>>

\* the rows of table T under the key (userName, pillarNode_id, dataSource)
KeyRows(T, u, ds, n) ==
    {p \in T : p.userName = u /\ p.dataSource = ds /\ p.pillarNode_id = n}

\* the rows of table T of user u under data source ds
ContextRows(T, u, ds) == {p \in T : p.userName = u /\ p.dataSource = ds}

\* MergePref with the data source left out of the ON clause: the value is
\* written to the node's row of every data source of the user
MergePref_AnySource(T, u, ds, n, v) ==
    LET matched == {p \in T : p.userName = u /\ p.pillarNode_id = n}
    IN IF matched # {}
       THEN (T \ matched) \cup {[p EXCEPT !.pillarNodeValue_id = v] : p \in matched}
       ELSE T \cup {[userName |-> u, dataSource |-> ds, pillarNode_id |-> n,
                     pillarNodeValue_id |-> v]}

\* the MERGE of upsert_pref: the row of the key gets the value, or a row is
\* inserted when the key has none
MergePref(T, u, ds, n, v) ==
    LET matched == KeyRows(T, u, ds, n)
    IN IF matched # {}
       THEN (T \ matched) \cup {[p EXCEPT !.pillarNodeValue_id = v] : p \in matched}
       ELSE T \cup {[userName |-> u, dataSource |-> ds, pillarNode_id |-> n,
                     pillarNodeValue_id |-> v]}

\* the DELETE of clear_pref
DeletePref(T, u, ds, n) == T \ KeyRows(T, u, ds, n)

\* the DELETE of clear_all_prefs
DeleteContext(T, u, ds) == T \ ContextRows(T, u, ds)

\* UpdateDataSource on a table without PK_userNodePreference
UpdateDataSource_NoKey(T, u, old, new) ==
    LET moved == ContextRows(T, u, old)
    IN (T \ moved) \cup {[p EXCEPT !.dataSource = new] : p \in moved}

\* UpdateDataSource with a WHERE clause on the data source only: the rows of
\* every user under old are renamed
UpdateDataSource_AnyUser(T, u, old, new) ==
    LET moved == {p \in T : p.dataSource = old}
        stay == T \ moved
    IN IF \E p \in moved : KeyRows(stay, p.userName, new, p.pillarNode_id) # {}
       THEN T
       ELSE stay \cup {[p EXCEPT !.dataSource = new] : p \in moved}

\* the UPDATE of rename_context: the rows of (u, old) get the data source
\* new; when one of them would take the key of a row that stays, the
\* statement violates PK_userNodePreference and changes nothing
UpdateDataSource(T, u, old, new) ==
    LET moved == ContextRows(T, u, old)
        stay == T \ moved
    IN IF \E p \in moved : KeyRows(stay, u, new, p.pillarNode_id) # {}
       THEN T
       ELSE stay \cup {[p EXCEPT !.dataSource = new] : p \in moved}

\* MergeContext without its WHEN MATCHED clause: a row that dest already
\* has for a node keeps its value
MergeContext_InsertOnly(T, u, src, dest) ==
    LET srcq == {[p EXCEPT !.dataSource = dest] : p \in ContextRows(T, u, src)}
    IN T \cup {p \in srcq : KeyRows(T, u, dest, p.pillarNode_id) = {}}

\* the MERGE of duplicate_context: every row of (u, src) is written under
\* dest, over the row of its key if there is one
MergeContext(T, u, src, dest) ==
    LET srcq == {[p EXCEPT !.dataSource = dest] : p \in ContextRows(T, u, src)}
        matched == {q \in T : \E p \in srcq :
                        /\ q.userName = p.userName
                        /\ q.pillarNode_id = p.pillarNode_id
                        /\ q.dataSource = p.dataSource}
    IN (T \ matched) \cup srcq

upsert_pref(u, ds, n, v) ==
    /\ userNodePreference' = MergePref(userNodePreference, u, ds, n, v)
    /\ UNCHANGED <<warningRule, warningRuleCondition, evalstate, history, admin>>

clear_pref(u, ds, n) ==
    /\ userNodePreference' = DeletePref(userNodePreference, u, ds, n)
    /\ UNCHANGED <<warningRule, warningRuleCondition, evalstate, history, admin>>

clear_all_prefs(u, ds) ==
    /\ userNodePreference' = DeleteContext(userNodePreference, u, ds)
    /\ UNCHANGED <<warningRule, warningRuleCondition, evalstate, history, admin>>

rename_context(u, old, new) ==
    /\ userNodePreference' = UpdateDataSource(userNodePreference, u, old, new)
    /\ UNCHANGED <<warningRule, warningRuleCondition, evalstate, history, admin>>

duplicate_context(u, src, dest) ==
    /\ userNodePreference' = MergeContext(userNodePreference, u, src, dest)
    /\ UNCHANGED <<warningRule, warningRuleCondition, evalstate, history, admin>>

\* the table as init_schema creates it, and no rules
InitPrefs ==
    /\ warningRule = {}
    /\ warningRuleCondition = {}
    /\ userNodePreference = {}
    /\ pc = "idle"
    /\ IdleLocals
    /\ before = NoHistory
    /\ prev = NoHistory
    /\ AdminIdle

NextPrefs ==
    \/ \E u \in PrefUsers, ds \in Sources, n \in Nodes, v \in Values :
          upsert_pref(u, ds, n, v)
    \/ \E u \in PrefUsers, ds \in Sources, n \in Nodes : clear_pref(u, ds, n)
    \/ \E u \in PrefUsers, ds \in Sources : clear_all_prefs(u, ds)
    \/ \E u \in PrefUsers, old \in Sources, new \in Sources : rename_context(u, old, new)
    \/ \E u \in PrefUsers, src \in Sources, dest \in Sources : duplicate_context(u, src, dest)

SpecPrefs == InitPrefs /\ [][NextPrefs]_vars

\* the values stored for the triple (u, ds, n) in table T
StoredValues(T, u, ds, n) == {p.pillarNodeValue_id : p \in KeyRows(T, u, ds, n)}

\* ------------------------------------------------------------------ C19

\* C19: in every state reachable by upsert_pref, clear_pref, clear_all_prefs,
\* rename_context (also onto a data source that already has selections for
\* the same nodes) and duplicate_context, each (user, data source, node)
\* triple has at most one stored value.
C19_OneValuePerTriple ==
    \A u \in PrefUsers, ds \in Sources, n \in Nodes :
        Cardinality(KeyRows(userNodePreference, u, ds, n)) <= 1

\* a user has, for both nodes, selections under both data sources, with
\* different values: a rename of either source onto the other collides
C19_Witness ==
    \E u \in PrefUsers : \A n \in Nodes :
        /\ StoredValues(userNodePreference, u, "A", n) # {}
        /\ StoredValues(userNodePreference, u, "B", n) # {}
        /\ StoredValues(userNodePreference, u, "A", n)
              # StoredValues(userNodePreference, u, "B", n)

\* ------------------------------------------------------------------ C20

\* C20: upsert_pref(user, dataSource, node, v) makes v the stored selection
\* of the triple (user, dataSource, node), in place of any value it had, and
\* leaves the selection of every other triple as it was.
C20_UpsertWritesOneTriple ==
    [][\A u \in PrefUsers, ds \in Sources, n \in Nodes, v \in Values :
          upsert_pref(u, ds, n, v) =>
              \A u2 \in PrefUsers, ds2 \in Sources, n2 \in Nodes :
                  StoredValues(userNodePreference', u2, ds2, n2) =
                      IF <<u2, ds2, n2>> = <<u, ds, n>> THEN {v}
                      ELSE StoredValues(userNodePreference, u2, ds2, n2)]_vars

\* a triple holds a value while the same user and node hold another value
\* under the other data source: an upsert has replaced or will replace one
\* of two selections that differ only in the data source
C20_Witness ==
    /\ StoredValues(userNodePreference, "u1", "A", 10) = {7}
    /\ StoredValues(userNodePreference, "u1", "B", 10) = {5}
    /\ StoredValues(userNodePreference, "u2", "A", 10) = {5}

\* ------------------------------------------------------------------ C16

\* the rows of the rule list whose rule fires, in the order of the list
FiringInOrder ==
    LET Test(r) == Fires(r) IN SelectSeq(list_rules, Test)

\* C16: the returned hit list holds each firing rule exactly once, in the
\* order in which the rule store lists the rules (creation time descending,
\* then id descending); the empty list is returned exactly when no rule
\* fires.
C16_HitsInRuleOrder ==
    Finished =>
        /\ outcome.kind = "return"
        /\ [i \in 1..Len(outcome.value) |-> outcome.value[i].id]
              = [i \in 1..Len(FiringInOrder) |-> FiringInOrder[i].id]

\* ================================================================== calls one after the other

\* rows of warningRule and warningRuleCondition together in the stores of
\* SpecSeq
MaxSeqRows == 2
\* the values a selection written between two calls may have
SeqValues == {5}

\* the history of the last call after a write to the selections of (u, ds):
\* "own" once a selection of the call's own user and data source was
\* written, "foreign" while only selections of other pairs were
Dirtied(h, u, ds) ==
    IF h.kind = "none" THEN h
    ELSE [h EXCEPT !.dirty = IF u = h.user_name /\ ds = h.data_source THEN "own"
                             ELSE IF @ = "own" THEN "own" ELSE "foreign"]

\* upsert_pref between two calls, with an effect on the table
SeqUpsertPref(u, ds, n, v) ==
    /\ pc = "idle"
    /\ userNodePreference' = MergePref(userNodePreference, u, ds, n, v)
    /\ userNodePreference' # userNodePreference
    /\ prev' = Dirtied(prev, u, ds)
    /\ UNCHANGED <<warningRule, warningRuleCondition, evalstate, before, admin>>

\* clear_pref between two calls, with an effect on the table
SeqClearPref(u, ds, n) ==
    /\ pc = "idle"
    /\ userNodePreference' = DeletePref(userNodePreference, u, ds, n)
    /\ userNodePreference' # userNodePreference
    /\ prev' = Dirtied(prev, u, ds)
    /\ UNCHANGED <<warningRule, warningRuleCondition, evalstate, before, admin>>

\* the caller has the outcome; the history keeps the call
SeqEnd ==
    /\ FrameGone
    /\ prev' = [kind |-> "call", user_name |-> user_name, data_source |-> data_source,
                outcome |-> outcome, dirty |-> "none"]
    /\ UNCHANGED <<store, before, admin>>

InitSeq ==
    /\ \E n \in 1..MaxSeqRows : \E m \in 0..(MaxSeqRows - n) :
          /\ warningRule \in RuleTables(n)
          /\ warningRuleCondition \in ConditionTables(n, m)
    /\ userNodePreference = {}
    /\ pc = "idle"
    /\ IdleLocals
    /\ before = NoHistory
    /\ prev = NoHistory
    /\ AdminIdle

NextSeq ==
    \/ \E u \in PrefUsers, ds \in Sources, n \in CondNodes, v \in SeqValues :
          SeqUpsertPref(u, ds, n, v)
    \/ \E u \in PrefUsers, ds \in Sources, n \in CondNodes : SeqClearPref(u, ds, n)
    \/ \E u \in Users, ds \in Sources : EvalCall(u, ds)
    \/ EvalListRules
    \/ EvalSkipInactive
    \/ EvalSkipOutOfScope
    \/ EvalFetchConds
    \/ EvalCond
    \/ EvalIfOk
    \/ EvalReturn
    \/ SeqEnd

SpecSeq == InitSeq /\ [][NextSeq]_vars

\* the call that has ended has the arguments of the last call before it
SameCallAgain ==
    /\ Finished
    /\ prev.kind = "call"
    /\ prev.user_name = user_name
    /\ prev.data_source = data_source

\* ------------------------------------------------------------------ C13

\* C13: two calls of evaluate_rules with the same arguments, with no write
\* to the store between or during them, have the same result.
C13_SameStoreSameResult ==
    (SameCallAgain /\ prev.dirty = "none") => outcome = prev.outcome

\* the second of two such calls has ended, after calls with other arguments
\* and writes before the two
C13_Witness ==
    /\ SameCallAgain /\ prev.dirty = "none"
    /\ userNodePreference # {}
    /\ outcome.kind = "AttributeError"

\* ------------------------------------------------------------------ C17

\* the hits of the rules that fire, in the order of the rule list
FiringHits ==
    [i \in 1..Len(FiringInOrder) |->
        LET r == CHOOSE w \in warningRule : w.id = FiringInOrder[i].id
        IN [id |-> r.id, name |-> r.name, severity |-> r.severity,
            message |-> r.message]]

\* C17: nothing is cached between evaluations: a call that starts after a
\* write to the store has completed returns the hit list that the written
\* store determines.
C17_FreshHitList ==
    (Finished /\ prev.kind = "call" /\ prev.dirty # "none") =>
        (outcome.kind = "return" /\ outcome.value = FiringHits)

\* ------------------------------------------------------------------ C18

\* C18: the result of evaluate_rules(user, dataSource) depends on the
\* preference store only through the selections of that user under that
\* data source: after writes to the selections of other pairs only, a call
\* with the same arguments has the same result.
C18_OtherPairsDoNotMatter ==
    (SameCallAgain /\ prev.dirty = "foreign") => outcome = prev.outcome

\* the second call has ended with a rule firing, after a write to the
\* selections of another pair, whose rows are in the table
C18_Witness ==
    /\ SameCallAgain /\ prev.dirty = "foreign"
    /\ outcome.kind = "AttributeError"
    /\ \E p \in userNodePreference :
          p.userName # user_name \/ p.dataSource # data_source

\* ================================================================== writes during a call

\* rows of warningRule and warningRuleCondition together in the stores of
\* SpecRace
MaxRaceRows == 2
\* store writes that may run while one call of evaluate_rules is in flight
MaxRaceWrites == 1

\* the DELETE of delete_rule
DeleteRule(T, id) == {r \in T : r.id # id}

\* DeleteRuleConditions when the conditions do not go with their rule
DeleteRuleConditions_None(T, id) == T

\* the conditions that are left when rule id is deleted: a rule owns its
\* conditions, they are deleted with it
DeleteRuleConditions(T, id) == {c \in T : c.rule_id # id}

\* the UPDATE of update_rule_meta, for the two columns that evaluate_rules
\* reads; "ds_filter or None" stores a blank filter as NULL
UpdateRuleMeta(T, id, is_active, ds_filter) ==
    {IF r.id = id
     THEN [r EXCEPT !.isActive = is_active,
                    !.dataSourceFilter = IF Truthy(ds_filter) THEN ds_filter ELSE None]
     ELSE r : r \in T}

\* the id an IDENTITY column gives a new row of table T
NewId(T) == IF T = {} THEN 1 ELSE (CHOOSE i \in {r.id : r \in T} : \A r \in T : r.id <= i) + 1

\* the INSERT of add_condition
InsertCondition(T, rule_id, node_id, operator, value_id) ==
    T \cup {[id |-> NewId(T), rule_id |-> rule_id, pillarNode_id |-> node_id,
             operator |-> operator, pillarNodeValue_id |-> value_id]}

\* the DELETE of delete_condition
DeleteCondition(T, cond_id) == {c \in T : c.id # cond_id}

\* a call of evaluate_rules is in flight and a store write may run beside it
InFlight ==
    /\ pc \notin {"idle", "done", "raised"}
    /\ before.kind = "call"
    /\ before.writes < MaxRaceWrites

\* the history of the running call after a store write
Written == before' = [before EXCEPT !.writes = @ + 1]

\* evaluate_rules(u, ds) is called; the history keeps the tables as they are
RaceCall(u, ds) ==
    /\ Called(u, ds)
    /\ before' = [kind |-> "call", warningRule |-> warningRule,
                  warningRuleCondition |-> warningRuleCondition,
                  userNodePreference |-> userNodePreference, writes |-> 0]
    /\ UNCHANGED <<store, prev, admin>>

RaceEnd ==
    /\ FrameGone
    /\ before' = NoHistory
    /\ UNCHANGED <<store, prev, admin>>

RaceUpsertPref(u, ds, n, v) ==
    /\ InFlight
    /\ userNodePreference' = MergePref(userNodePreference, u, ds, n, v)
    /\ userNodePreference' # userNodePreference
    /\ Written
    /\ UNCHANGED <<warningRule, warningRuleCondition, evalstate, prev, admin>>

RaceClearPref(u, ds, n) ==
    /\ InFlight
    /\ userNodePreference' = DeletePref(userNodePreference, u, ds, n)
    /\ userNodePreference' # userNodePreference
    /\ Written
    /\ UNCHANGED <<warningRule, warningRuleCondition, evalstate, prev, admin>>

RaceUpdateRuleMeta(id, is_active, ds_filter) ==
    /\ InFlight
    /\ warningRule' = UpdateRuleMeta(warningRule, id, is_active, ds_filter)
    /\ warningRule' # warningRule
    /\ Written
    /\ UNCHANGED <<warningRuleCondition, userNodePreference, evalstate, prev, admin>>

RaceDeleteRule(id) ==
    /\ InFlight
    /\ warningRule' = DeleteRule(warningRule, id)
    /\ warningRule' # warningRule
    /\ warningRuleCondition' = DeleteRuleConditions(warningRuleCondition, id)
    /\ Written
    /\ UNCHANGED <<userNodePreference, evalstate, prev, admin>>

RaceAddCondition(rule_id, node_id, operator, value_id) ==
    /\ InFlight
    /\ Cardinality(warningRule) + Cardinality(warningRuleCondition) < MaxRaceRows
    /\ \E r \in warningRule : r.id = rule_id
    /\ NewId(warningRuleCondition) <= MaxRaceRows
    /\ warningRuleCondition' =
          InsertCondition(warningRuleCondition, rule_id, node_id, operator, value_id)
    /\ Written
    /\ UNCHANGED <<warningRule, userNodePreference, evalstate, prev, admin>>

RaceDeleteCondition(cond_id) ==
    /\ InFlight
    /\ warningRuleCondition' = DeleteCondition(warningRuleCondition, cond_id)
    /\ warningRuleCondition' # warningRuleCondition
    /\ Written
    /\ UNCHANGED <<warningRule, userNodePreference, evalstate, prev, admin>>

OPERATORS == <<"=", "!=", "IS NULL", "IS NOT NULL">>

\* the INSERT of insert_rule into dbo.warningRule; the new row is the latest
InsertRule(T, is_active, ds_filter) ==
    T \cup {[id |-> NewId(T), name |-> RuleName(NewId(T)), message |-> RuleMessage(NewId(T)),
             severity |-> SEVERITIES[(NewId(T) % 3) + 1], isActive |-> is_active,
             dataSourceFilter |-> IF Truthy(ds_filter) THEN ds_filter ELSE None,
             dateAdded |-> NewId(T)]}

\* insert_rule: the rule and its conditions (at most one here) in one
\* transaction
RaceInsertRule(is_active, ds_filter, conditions) ==
    /\ InFlight
    /\ Cardinality(warningRule) + Cardinality(warningRuleCondition) + Len(conditions)
          < MaxRaceRows
    /\ NewId(warningRule) <= MaxRaceRows
    /\ conditions # <<>> => NewId(warningRuleCondition) <= MaxRaceRows
    /\ warningRule' = InsertRule(warningRule, is_active, ds_filter)
    /\ warningRuleCondition' =
          IF conditions = <<>> THEN warningRuleCondition
          ELSE InsertCondition(warningRuleCondition, NewId(warningRule),
                               conditions[1][1], conditions[1][2], conditions[1][3])
    /\ Written
    /\ UNCHANGED <<userNodePreference, evalstate, prev, admin>>

\* the condition lists of a draft rule
DraftConditions ==
    {<<>>} \cup {<<c>> : c \in CondNodes \X {OPERATORS[i] : i \in 1..Len(OPERATORS)}
                                 \X OptionalOf(Targets)}

InitRace ==
    /\ \E n \in 1..MaxRaceRows : \E m \in 0..(MaxRaceRows - n) :
          /\ warningRule \in RuleTables(n)
          /\ warningRuleCondition \in ConditionTables(n, m)
    /\ userNodePreference \in PreferenceTables
    /\ pc = "idle"
    /\ IdleLocals
    /\ before = NoHistory
    /\ prev = NoHistory
    /\ AdminIdle

NextRace ==
    \/ \E u \in Users, ds \in Sources : RaceCall(u, ds)
    \/ EvalListRules
    \/ EvalSkipInactive
    \/ EvalSkipOutOfScope
    \/ EvalFetchConds
    \/ EvalCond
    \/ EvalIfOk
    \/ EvalReturn
    \/ RaceEnd
    \/ \E u \in Users, n \in Nodes, v \in Values : RaceUpsertPref(u, PrefSource, n, v)
    \/ \E u \in Users, n \in Nodes : RaceClearPref(u, PrefSource, n)
    \/ \E r \in warningRule, a \in BOOLEAN, f \in OptionalOf(Filters) :
          RaceUpdateRuleMeta(r.id, a, f)
    \/ \E r \in warningRule : RaceDeleteRule(r.id)
    \/ \E a \in BOOLEAN, f \in OptionalOf(Filters), cs \in DraftConditions :
          RaceInsertRule(a, f, cs)
    \/ \E r \in warningRule, n \in CondNodes, i \in 1..Len(OPERATORS),
          v \in OptionalOf(Targets) : RaceAddCondition(r.id, n, OPERATORS[i], v)
    \/ \E c \in warningRuleCondition : RaceDeleteCondition(c.id)

SpecRace == InitRace /\ [][NextRace]_vars

\* ------------------------------------------------------------------ evaluate_rules on given tables

\* fetch_user_pref_map on the table T
PrefMapOf(T, u, ds) ==
    LET rows == ContextRows(T, u, ds)
    IN [n \in {p.pillarNode_id : p \in rows} |->
            (CHOOSE p \in rows : p.pillarNode_id = n).pillarNodeValue_id]

\* the inner loop of evaluate_rules on the conditions of rule id in table T:
\* ok is still true after the loop
AllOk(T, id, p) ==
    LET cs == OrderConds({c \in T : c.rule_id = id /\ c.pillarNode_id \in Nodes})
    IN \A j \in 1..Len(cs) : OkAfter(TRUE, cs[j], p)

RECURSIVE RunRules(_, _, _, _, _, _)
\* the loop of evaluate_rules from the i-th row of the rule list rs on, with
\* the hits hs so far
RunRules(rs, i, hs, wc, p, ds) ==
    IF i > Len(rs) THEN [kind |-> "return", value |-> hs]
    ELSE LET r == rs[i]
         IN IF SkipsInactive(r) \/ SkipsOutOfScope(r, ds) \/ ~AllOk(wc, r.id, p)
            THEN RunRules(rs, i + 1, hs, wc, p, ds)
            ELSE IF \A a \in {"id", "name", "severity", "message"} : HasAttr(r, a)
            THEN RunRules(rs, i + 1,
                          Append(hs, [id |-> r.id, name |-> r.name,
                                      severity |-> r.severity, message |-> r.message]),
                          wc, p, ds)
            ELSE [kind |-> "AttributeError"]

\* the outcome of evaluate_rules(u, ds) when the tables are wr, wc and up
\* from its first read to its last
OutcomeOn(wr, wc, up, u, ds) ==
    RunRules(OrderRules({[col \in list_rules_columns |-> r[col]] : r \in wr}),
             1, <<>>, wc, PrefMapOf(up, u, ds), ds)

\* ------------------------------------------------------------------ C14

C15_BeforeOrAfter ==
    (Finished /\ before.kind = "call" /\ before.writes = 1) =>
        \/ outcome = OutcomeOn(before.warningRule, before.warningRuleCondition,
                               before.userNodePreference, user_name, data_source)
        \/ outcome = OutcomeOn(warningRule, warningRuleCondition,
                               userNodePreference, user_name, data_source)

\* a call without a write beside it has the outcome of evaluate_rules on
\* the tables
OutcomeOnIsEvaluate ==
    (Finished /\ before.kind = "call" /\ before.writes = 0) =>
        outcome = OutcomeOn(warningRule, warningRuleCondition,
                            userNodePreference, user_name, data_source)

\* ------------------------------------------------------------------ C27

\* C27: after duplicate_context(user, src, dest), dest holds for every node
\* selected under src the value src holds (in place of any value dest had
\* for the node); the selections under src, the selections under dest for
\* nodes not selected under src, and the selections of every other user and
\* data source are as they were.
C27_DuplicateCopiesOneContext ==
    [][\A u \in PrefUsers, src \in Sources, dest \in Sources :
          userNodePreference' = MergeContext(userNodePreference, u, src, dest) =>
              \A u2 \in PrefUsers, ds2 \in Sources, n2 \in Nodes :
                  StoredValues(userNodePreference', u2, ds2, n2) =
                      IF /\ u2 = u /\ ds2 = dest
                         /\ StoredValues(userNodePreference, u, src, n2) # {}
                      THEN StoredValues(userNodePreference, u, src, n2)
                      ELSE StoredValues(userNodePreference, u2, ds2, n2)]_vars

\* B holds the value of A for the node selected under A and another node
\* besides, next to selections of the other user
C27_Witness ==
    /\ StoredValues(userNodePreference, "u1", "A", 10) = {5}
    /\ StoredValues(userNodePreference, "u1", "A", 20) = {}
    /\ StoredValues(userNodePreference, "u1", "B", 10) = {5}
    /\ StoredValues(userNodePreference, "u1", "B", 20) = {7}
    /\ StoredValues(userNodePreference, "u2", "B", 10) = {7}

\* ------------------------------------------------------------------ C28

\* C28: rename_context(user, old, new), called when the user has no
\* selections under new, moves every selection from old to new with the same
\* node-to-value pairs, leaves no selection under old and leaves the
\* selections of every other user and data source as they were:
\* fetch_user_pref_map(user, new) afterwards is what
\* fetch_user_pref_map(user, old) was before.
C28_RenameMovesOneContext ==
    [][\A u \in PrefUsers, old \in Sources, new \in Sources :
          (/\ ContextRows(userNodePreference, u, new) = {}
           /\ userNodePreference' = UpdateDataSource(userNodePreference, u, old, new)) =>
              /\ PrefMapOf(userNodePreference', u, new) = PrefMapOf(userNodePreference, u, old)
              /\ old # new => ContextRows(userNodePreference', u, old) = {}
              /\ \A u2 \in PrefUsers, ds2 \in Sources, n2 \in Nodes :
                    (u2 # u \/ ds2 \notin {old, new}) =>
                        StoredValues(userNodePreference', u2, ds2, n2) =
                            StoredValues(userNodePreference, u2, ds2, n2)]_vars

\* a user has both nodes selected under one data source and nothing under
\* the other, the other user has selections under both
C28_Witness ==
    /\ ContextRows(userNodePreference, "u1", "A") = {}
    /\ StoredValues(userNodePreference, "u1", "B", 10) = {5}
    /\ StoredValues(userNodePreference, "u1", "B", 20) = {7}
    /\ ContextRows(userNodePreference, "u2", "A") # {}
    /\ ContextRows(userNodePreference, "u2", "B") # {}

\* ================================================================== the rule page

\* rows of dbo.warningRule, and ids its IDENTITY column gives, in SpecRules
MaxPageRules == 2
\* rows of dbo.warningRuleCondition, with those a draft is about to add, and
\* ids its IDENTITY column gives, in SpecRules
MaxPageConds == 2
\* the session that uses the rule page
RuleSession == "s1"

\* the names of the nodes and of the values, in lower case
NodeName(n) == IF n = 10 THEN "ten" ELSE "twenty"
ValueName(v) == IF v = 5 THEN "five" ELSE "seven"

NodeRow(n) == [id |-> n, subCategory_id |-> 1, pillarNode |-> NodeName(n)]
ValueRow(v) == [id |-> v, pillarNodeValue |-> ValueName(v)]
MappingRow(n, v) == [pillarNode_id |-> n, pillarNodeValue_id |-> v, copy |-> 1]

\* fetch_values_for_node(node_id): the ids of the values mapped to the node
fetch_values_for_node(node_id) ==
    {m.pillarNodeValue_id : m \in {x \in pillarNodeValueMapping :
        /\ x.pillarNode_id = node_id
        /\ \E v \in pillarNodeValue : v.id = x.pillarNodeValue_id}}

\* the nodes the Category / Subcategory / Pillar Node pickers lead to
NodeChoices ==
    {n.id : n \in {x \in pillarNode :
        \E sc \in subCategory : sc.id = x.subCategory_id
                                /\ \E c \in category : c.id = sc.category_id}}

\* what the Value picker can hold for a node and an operator: it is shown
\* for '=' and '!=' only, and only when the node has mapped values
ValueChoices(node_id, op) ==
    IF op \in {"=", "!="} /\ fetch_values_for_node(node_id) # {}
    THEN {Some(v) : v \in fetch_values_for_node(node_id)}
    ELSE {None}

\* Rejected without the test of the value
Rejected_Never(op, val_choice) == FALSE

\* "elif op_choice in ('=', '!=') and not val_choice": st.error, nothing is
\* added
Rejected(op, val_choice) == op \in {"=", "!="} /\ val_choice = None

\* the form "Start rule & add conditions": st.session_state gets the draft
StartRule(s, is_active, ds_filter) ==
    /\ session[s].pc = "idle"
    /\ session' = [session EXCEPT ![s] =
          [pc |-> "draft", is_active |-> is_active,
           ds_filter |-> IF Strip(ds_filter) = "" THEN None ELSE Some(Strip(ds_filter)),
           new_rule_conds |-> <<>>]]
    /\ UNCHANGED <<store, evalstate, history, taxonomy>>

\* the button "Add condition" of the draft
AddDraftCondition(s, node_choice, op_choice, val_choice) ==
    /\ session[s].pc = "draft"
    /\ Len(session[s].new_rule_conds) + Cardinality(warningRuleCondition) < MaxPageConds
    /\ node_choice \in NodeChoices
    /\ val_choice \in ValueChoices(node_choice, op_choice)
    /\ ~Rejected(op_choice, val_choice)
    /\ session' = [session EXCEPT ![s].new_rule_conds =
          Append(@, <<node_choice, op_choice, val_choice>>)]
    /\ UNCHANGED <<store, evalstate, history, taxonomy>>

\* the button "Clear conditions"
ClearDraftConditions(s) ==
    /\ session[s].pc = "draft"
    /\ session[s].new_rule_conds # <<>>
    /\ session' = [session EXCEPT ![s].new_rule_conds = <<>>]
    /\ UNCHANGED <<store, evalstate, history, taxonomy>>

RECURSIVE InsertConditions(_, _, _)
\* the INSERTs of insert_rule into dbo.warningRuleCondition, in list order
InsertConditions(T, rid, conditions) ==
    IF conditions = <<>> THEN T
    ELSE InsertConditions(
            InsertCondition(T, rid, conditions[1][1], conditions[1][2], conditions[1][3]),
            rid, Tail(conditions))

\* the button "Save rule", shown while the draft has conditions: insert_rule
SaveRule(s) ==
    /\ session[s].pc = "draft"
    /\ session[s].new_rule_conds # <<>>
    /\ Cardinality(warningRule) < MaxPageRules
    /\ NewId(warningRule) <= MaxPageRules
    /\ \A r \in warningRule : Cardinality(ConditionsOf(r)) <= MaxPageConds
    /\ Cardinality(warningRuleCondition) + Len(session[s].new_rule_conds) <= MaxPageConds
    /\ warningRule' = InsertRule(warningRule, session[s].is_active, session[s].ds_filter)
    /\ warningRuleCondition' =
          InsertConditions(warningRuleCondition, NewId(warningRule),
                           session[s].new_rule_conds)
    /\ session' = [session EXCEPT ![s] = Idle]
    /\ UNCHANGED <<userNodePreference, evalstate, history, taxonomy>>

\* the button "Add condition to rule" for the rule picked in the list
AddConditionToRule(rid, node_choice, op_choice, val_choice) ==
    /\ \E r \in warningRule : r.id = rid
    /\ Cardinality(warningRuleCondition) < MaxPageConds
    /\ NewId(warningRuleCondition) <= MaxPageConds
    /\ node_choice \in NodeChoices
    /\ val_choice \in ValueChoices(node_choice, op_choice)
    /\ ~Rejected(op_choice, val_choice)
    /\ warningRuleCondition' =
          InsertCondition(warningRuleCondition, rid, node_choice, op_choice, val_choice)
    /\ UNCHANGED <<warningRule, userNodePreference, evalstate, history, admin>>

\* the button "Delete rule" for the rule picked in the list
DeleteRuleButton(rid) ==
    /\ \E r \in warningRule : r.id = rid
    /\ warningRule' = DeleteRule(warningRule, rid)
    /\ warningRuleCondition' = DeleteRuleConditions(warningRuleCondition, rid)
    /\ UNCHANGED <<userNodePreference, evalstate, history, admin>>

\* the button "Delete selected condition"
DeleteConditionButton(cond_id) ==
    /\ \E c \in warningRuleCondition : c.id = cond_id
    /\ warningRuleCondition' = DeleteCondition(warningRuleCondition, cond_id)
    /\ UNCHANGED <<warningRule, userNodePreference, evalstate, history, admin>>

\* no rules yet; one category, one subcategory, its nodes, the values, and
\* a mapping table in which the condition node has its values mapped or not
InitRules ==
    /\ warningRule = {}
    /\ warningRuleCondition = {}
    /\ userNodePreference = {}
    /\ pc = "idle"
    /\ IdleLocals
    /\ before = NoHistory
    /\ prev = NoHistory
    /\ category = {[id |-> 1, category |-> "category"]}
    /\ subCategory = {[id |-> 1, category_id |-> 1, subCategory |-> "subcategory"]}
    /\ pillarNode = {NodeRow(n) : n \in CondNodes}
    /\ pillarNodeValue = {ValueRow(v) : v \in Targets}
    /\ pillarNodeValueMapping \in
          {{}, {MappingRow(n, v) : n \in CondNodes, v \in Targets}}
    /\ session = [s \in Sessions |-> Idle]

NextRules ==
    \/ \E f \in {"", " "} : StartRule(RuleSession, TRUE, f)
    \/ \E n \in CondNodes, i \in 1..Len(OPERATORS), v \in OptionalOf(Targets) :
          AddDraftCondition(RuleSession, n, OPERATORS[i], v)
    \/ ClearDraftConditions(RuleSession)
    \/ SaveRule(RuleSession)
    \/ \E r \in warningRule, n \in CondNodes, i \in 1..Len(OPERATORS),
          v \in OptionalOf(Targets) : AddConditionToRule(r.id, n, OPERATORS[i], v)
    \/ \E r \in warningRule : DeleteRuleButton(r.id)
    \/ \E c \in warningRuleCondition : DeleteConditionButton(c.id)

SpecRules == InitRules /\ [][NextRules]_vars

\* ------------------------------------------------------------------ C21

\* C21: deleting a rule deletes its conditions: after delete_rule(r) no
\* condition with rule_id = r is left, and in every reachable state every
\* stored condition belongs to a stored rule.
C21_ConditionsGoWithTheirRule ==
    /\ [](\A c \in warningRuleCondition : \E r \in warningRule : r.id = c.rule_id)
    /\ [][\A r \in warningRule :
            (warningRule' = DeleteRule(warningRule, r.id)) =>
                \A c \in warningRuleCondition' : c.rule_id # r.id]_vars

\* one of two rules is stored, with ids up to 2 given: a rule that had
\* conditions was deleted, or the other rule's conditions are all that is left
C21_Witness ==
    /\ Cardinality(warningRule) = 1
    /\ \E r \in warningRule : r.id = 2
    /\ warningRuleCondition # {}

\* ------------------------------------------------------------------ C22

\* C22: in every state of the rule store reachable through the draft flow
\* (add condition, then save rule) and through adding a condition to a
\* stored rule, each stored condition with operator '=' or '!=' has a
\* target value and each with 'IS NULL' or 'IS NOT NULL' has none.
C22_StoredConditionsAreWellFormed ==
    \A c \in warningRuleCondition :
        /\ c.operator \in {"=", "!="} => c.pillarNodeValue_id # None
        /\ c.operator \in {"IS NULL", "IS NOT NULL"} => c.pillarNodeValue_id = None

\* conditions of both kinds are stored while the node has no mapped value
C22_Witness ==
    /\ \E c \in warningRuleCondition : c.operator = "IS NULL"
    /\ \E c \in warningRuleCondition : c.operator = "IS NOT NULL"
    /\ pillarNodeValueMapping = {}

\* ================================================================== the taxonomy pages

\* lists without repetition of members of S, as a multiselect gives them
Lists(S) ==
    {q \in UNION {[1..k -> S] : k \in 1..Cardinality(S)} :
        \A i, j \in DOMAIN q : q[i] = q[j] => i = j}

\* the set of the members of list q
SetOf(q) == {q[i] : i \in DOMAIN q}

\* a script run of session s has ended and the page takes a click
Ready(s) == session[s].pc \in {"idle", "done"}

\* mapping_count_for_node(node_id) on mapping table T
mapping_count_for_node(T, node_id) ==
    Cardinality({m \in T : m.pillarNode_id = node_id})

\* mapping_count_for_value(val_id) on mapping table T
mapping_count_for_value(T, val_id) ==
    Cardinality({m \in T : m.pillarNodeValue_id = val_id})

\* Blocked when the mappings are not counted
Blocked_Never(cnt) == FALSE

\* "if cnt > 0: return False, 'Cannot delete ...'"
Blocked(cnt) == cnt > 0

\* FK_userPref_Node / FK_userPref_Value: a stored selection refers to the row
FK_userPref(tbl, id) ==
    \E p \in userNodePreference :
        IF tbl = "pillarNode" THEN p.pillarNode_id = id ELSE p.pillarNodeValue_id = id

\* FK_mapping when the mapping table has no foreign key
FK_mapping_None(T, tbl, id) == FALSE

\* the foreign keys of dbo.pillarNodeValueMapping to dbo.pillarNode and
\* dbo.pillarNodeValue: a row of mapping table T refers to the row
FK_mapping(T, tbl, id) ==
    \E m \in T :
        IF tbl = "pillarNode" THEN m.pillarNode_id = id ELSE m.pillarNodeValue_id = id

\* the DELETE of delete_pillar_node / delete_value raises DBAPIError
DeleteRaises(tbl, id) ==
    FK_userPref(tbl, id) \/ FK_mapping(pillarNodeValueMapping, tbl, id)

\* the row with the id is gone from table T
DeleteRow(T, id) == {x \in T : x.id # id}

\* what a call of delete_pillar_node / delete_value returns
Returned(tbl, id, success, msg) ==
    [pc |-> "done", op |-> "delete", table |-> tbl, id |-> id, ok |-> success,
     msg |-> msg]

\* delete_pillar_node(node_id) up to the count of the mappings, read in a
\* transaction of its own: the call returns when there are mappings
DeleteNodeCount(s, node_id) ==
    /\ Ready(s)
    /\ \E n \in pillarNode : n.id = node_id
    /\ session' = [session EXCEPT ![s] =
          IF Blocked(mapping_count_for_node(pillarNodeValueMapping, node_id))
          THEN Returned("pillarNode", node_id, FALSE, "Cannot delete")
          ELSE [pc |-> "delete", table |-> "pillarNode", id |-> node_id]]
    /\ UNCHANGED <<store, evalstate, history, taxonomy>>

\* delete_value(val_id) up to the count of the mappings
DeleteValueCount(s, val_id) ==
    /\ Ready(s)
    /\ \E v \in pillarNodeValue : v.id = val_id
    /\ session' = [session EXCEPT ![s] =
          IF Blocked(mapping_count_for_value(pillarNodeValueMapping, val_id))
          THEN Returned("pillarNodeValue", val_id, FALSE, "Cannot delete")
          ELSE [pc |-> "delete", table |-> "pillarNodeValue", id |-> val_id]]
    /\ UNCHANGED <<store, evalstate, history, taxonomy>>

\* the rest of delete_pillar_node / delete_value: the DELETE in its own
\* transaction, and the except clause
DeleteCommit(s) ==
    /\ session[s].pc = "delete"
    /\ LET tbl == session[s].table
           id == session[s].id
       IN  IF DeleteRaises(tbl, id)
           THEN /\ session' = [session EXCEPT ![s] = Returned(tbl, id, FALSE, "Delete failed")]
                /\ UNCHANGED <<pillarNode, pillarNodeValue>>
           ELSE /\ session' = [session EXCEPT ![s] = Returned(tbl, id, TRUE, "Deleted")]
                /\ pillarNode' = IF tbl = "pillarNode" THEN DeleteRow(pillarNode, id)
                                 ELSE pillarNode
                /\ pillarNodeValue' = IF tbl = "pillarNodeValue"
                                      THEN DeleteRow(pillarNodeValue, id)
                                      ELSE pillarNodeValue
    /\ UNCHANGED <<store, evalstate, history, category, subCategory, pillarNodeValueMapping>>

\* fetch_available_values(node_id): the ids of the values not mapped to the
\* node
fetch_available_values(node_id) ==
    {v.id : v \in {x \in pillarNodeValue :
        ~\E m \in pillarNodeValueMapping :
            m.pillarNode_id = node_id /\ m.pillarNodeValue_id = x.id}}

\* fetch_mapped_values(node_id): the ids of the values mapped to the node
fetch_mapped_values(node_id) ==
    {v.id : v \in {x \in pillarNodeValue :
        \E m \in pillarNodeValueMapping :
            m.pillarNode_id = node_id /\ m.pillarNodeValue_id = x.id}}

\* the rows of mapping table T for the pair
PairRows(T, node_id, vid) ==
    {m \in T : m.pillarNode_id = node_id /\ m.pillarNodeValue_id = vid}

\* Mapped without the look at the table
Mapped_Never(T, node_id, vid) == FALSE

\* "IF NOT EXISTS (SELECT 1 FROM dbo.pillarNodeValueMapping WHERE ...)" fails
Mapped(T, node_id, vid) == PairRows(T, node_id, vid) # {}

\* "INSERT INTO dbo.pillarNodeValueMapping (pillarNode_id, pillarNodeValue_id)"
InsertMapping(T, node_id, vid) ==
    T \cup {[pillarNode_id |-> node_id, pillarNodeValue_id |-> vid,
             copy |-> Cardinality(PairRows(T, node_id, vid)) + 1]}

\* the INSERT raises DBAPIError: the node or the value is not stored
InsertRaises(node_id, vid) ==
    \/ ~\E n \in pillarNode : n.id = node_id
    \/ ~\E v \in pillarNodeValue : v.id = vid

RECURSIVE AddLoop(_, _, _, _)
\* "for vid in value_ids" of add_mappings: the table and the skipped list
AddLoop(T, skipped, node_id, value_ids) ==
    IF value_ids = <<>> THEN [table |-> T, skipped |-> skipped]
    ELSE LET vid == Head(value_ids)
         IN  IF Mapped(T, node_id, vid)
             THEN AddLoop(T, skipped, node_id, Tail(value_ids))
             ELSE IF InsertRaises(node_id, vid)
                  THEN AddLoop(T, Append(skipped, vid), node_id, Tail(value_ids))
                  ELSE AddLoop(InsertMapping(T, node_id, vid), skipped, node_id,
                               Tail(value_ids))

\* add_mappings(node_id, value_ids) on mapping table T: the table it leaves
\* and the pair (inserted, skipped) it returns
add_mappings(T, node_id, value_ids) ==
    IF value_ids = <<>> THEN [table |-> T, inserted |-> 0, skipped |-> <<>>]
    ELSE LET r == AddLoop(T, <<>>, node_id, value_ids)
         IN  [table |-> r.table,
              inserted |-> Cardinality(SetOf(value_ids)) - Len(r.skipped),
              skipped |-> r.skipped]

\* remove_mappings(node_id, value_ids) on mapping table T
remove_mappings(T, node_id, value_ids) ==
    {m \in T : ~(m.pillarNode_id = node_id /\ m.pillarNodeValue_id \in SetOf(value_ids))}

\* the mapping page is drawn for a node: the available values are read and
\* the operator selects values to add
MappingsRender(s, node_id, to_add_ids) ==
    /\ Ready(s)
    /\ \E n \in pillarNode : n.id = node_id
    /\ to_add_ids \in Lists(fetch_available_values(node_id))
    /\ session' = [session EXCEPT ![s] =
          [pc |-> "add", node_id |-> node_id, value_ids |-> to_add_ids]]
    /\ UNCHANGED <<store, evalstate, history, taxonomy>>

\* the button "Add selected" / "Add ALL filtered": add_mappings
AddSelected(s) ==
    /\ session[s].pc = "add"
    /\ LET r == add_mappings(pillarNodeValueMapping, session[s].node_id,
                             session[s].value_ids)
       IN  /\ pillarNodeValueMapping' = r.table
           /\ session' = [session EXCEPT ![s] =
                 [pc |-> "done", op |-> "add", node_id |-> session[s].node_id,
                  value_ids |-> session[s].value_ids,
                  inserted |-> r.inserted, skipped |-> r.skipped]]
    /\ UNCHANGED <<store, evalstate, history, category, subCategory, pillarNode,
                   pillarNodeValue>>

\* the button "Remove selected" / "Remove ALL filtered": remove_mappings
RemoveSelected(s, node_id, to_remove_ids) ==
    /\ Ready(s)
    /\ \E n \in pillarNode : n.id = node_id
    /\ to_remove_ids \in Lists(fetch_mapped_values(node_id))
    /\ pillarNodeValueMapping' =
          remove_mappings(pillarNodeValueMapping, node_id, to_remove_ids)
    /\ session' = [session EXCEPT ![s] =
          [pc |-> "done", op |-> "remove", removed |-> Len(to_remove_ids)]]
    /\ UNCHANGED <<store, evalstate, history, category, subCategory, pillarNode,
                   pillarNodeValue>>

\* the nodes and the values are stored, nothing is mapped, and one selection
\* refers to the last node and the last value
InitMap ==
    /\ warningRule = {}
    /\ warningRuleCondition = {}
    /\ userNodePreference =
          {[userName |-> "u1", dataSource |-> PrefSource, pillarNode_id |-> 20,
            pillarNodeValue_id |-> 7]}
    /\ pc = "idle"
    /\ IdleLocals
    /\ before = NoHistory
    /\ prev = NoHistory
    /\ category = {[id |-> 1, category |-> "category"]}
    /\ subCategory = {[id |-> 1, category_id |-> 1, subCategory |-> "subcategory"]}
    /\ pillarNode = {NodeRow(n) : n \in Nodes}
    /\ pillarNodeValue = {ValueRow(v) : v \in Values}
    /\ pillarNodeValueMapping = {}
    /\ session = [s \in Sessions |-> Idle]

NextMap ==
    \E s \in Sessions :
        \/ \E n \in Nodes : DeleteNodeCount(s, n)
        \/ \E v \in Values : DeleteValueCount(s, v)
        \/ DeleteCommit(s)
        \/ \E n \in Nodes, q \in Lists(Values) : MappingsRender(s, n, q)
        \/ AddSelected(s)
        \/ \E n \in Nodes, q \in Lists(Values) : RemoveSelected(s, n, q)

SpecMap == InitMap /\ [][NextMap]_vars

\* the rows of the mapping table that refer to row id of table tbl
MappingsOf(tbl, id) ==
    {m \in pillarNodeValueMapping :
        IF tbl = "pillarNode" THEN m.pillarNode_id = id ELSE m.pillarNodeValue_id = id}

\* the step is the count of a delete call of session s
CountStep(s) ==
    /\ Ready(s)
    /\ session'[s] # session[s]
    /\ session'[s].pc \in {"delete", "done"}
    /\ session'[s].pc = "done" => session'[s].op = "delete"

\* the step is the DELETE of a delete call of session s
DeleteStep(s) == session[s].pc = "delete" /\ session'[s].pc = "done"

\* the step is the add_mappings call of session s
AddStep(s) == session[s].pc = "add" /\ session'[s].pc = "done"

\* the pairs mapped in mapping table T
Pairs(T) == {<<m.pillarNode_id, m.pillarNodeValue_id>> : m \in T}

\* ------------------------------------------------------------------ C23

\* C23: delete_pillar_node (delete_value) on a node (value) that has at
\* least one mapping returns (False, message) and leaves the taxonomy and
\* mapping tables unchanged; on one with no mapping and no other reference
\* it deletes exactly that row and returns (True, message).
C23_DeleteBlockedByMappings ==
    [][\A s \in Sessions :
          /\ CountStep(s) =>
                IF MappingsOf(session'[s].table, session'[s].id) # {}
                THEN /\ session'[s].pc = "done"
                     /\ session'[s].ok = FALSE
                     /\ taxonomy' = taxonomy
                ELSE session'[s].pc = "delete"
          /\ (/\ DeleteStep(s)
              /\ MappingsOf(session[s].table, session[s].id) = {}
              /\ ~FK_userPref(session[s].table, session[s].id)) =>
                /\ session'[s].ok = TRUE
                /\ pillarNode' = IF session[s].table = "pillarNode"
                                 THEN {n \in pillarNode : n.id # session[s].id}
                                 ELSE pillarNode
                /\ pillarNodeValue' = IF session[s].table = "pillarNodeValue"
                                      THEN {v \in pillarNodeValue : v.id # session[s].id}
                                      ELSE pillarNodeValue
                /\ UNCHANGED <<category, subCategory, pillarNodeValueMapping>>]_vars

\* node 10 was deleted, node 20 is stored, and the delete of a mapped value
\* was refused
C23_Witness ==
    /\ \E s \in Sessions :
          /\ session[s].pc = "done" /\ session[s].op = "delete"
          /\ session[s].table = "pillarNode" /\ session[s].id = 10
          /\ session[s].ok = TRUE
    /\ {n.id : n \in pillarNode} = {20}
    /\ \E s \in Sessions :
          /\ session[s].pc = "done" /\ session[s].op = "delete"
          /\ session[s].table = "pillarNodeValue"
          /\ session[s].msg = "Cannot delete"
          /\ MappingsOf("pillarNodeValue", session[s].id) # {}

\* ------------------------------------------------------------------ C24

\* C24: under any interleaving of add_mappings, remove_mappings,
\* delete_pillar_node and delete_value by concurrent operators (the count
\* of the mappings and the DELETE are separate transactions), every
\* mapping row refers to a stored node and a stored value in every
\* reachable state: a node or value that has a mapping is never deleted.
C24_MappingsReferToStoredRows ==
    \A m \in pillarNodeValueMapping :
        /\ \E n \in pillarNode : n.id = m.pillarNode_id
        /\ \E v \in pillarNodeValue : v.id = m.pillarNodeValue_id

\* a delete counted no mapping of node 10, another operator mapped a value
\* to the node before the DELETE ran, and the DELETE failed
C24_Witness ==
    /\ \E s \in Sessions :
          /\ session[s].pc = "done"
          /\ session[s].op = "delete"
          /\ session[s].table = "pillarNode"
          /\ session[s].id = 10
          /\ session[s].msg = "Delete failed"
    /\ \E m \in pillarNodeValueMapping : m.pillarNode_id = 10

\* ------------------------------------------------------------------ C25

\* C25: add_mappings ignores mappings that exist: after any sequence of
\* add_mappings calls each (node, value) pair is mapped at most once, and
\* the same call again leaves the mapping table unchanged.
C25_AddMappingsIsIdempotent ==
    /\ [](\A n \in Nodes, v \in Values :
             Cardinality(PairRows(pillarNodeValueMapping, n, v)) <= 1)
    /\ [][\A s \in Sessions : AddStep(s) =>
             add_mappings(pillarNodeValueMapping', session[s].node_id,
                          session[s].value_ids).table = pillarNodeValueMapping']_vars

\* both operators have added the same values to the same node: the second
\* call found them mapped
C25_Witness ==
    /\ \A s \in Sessions : session[s].pc = "done" /\ session[s].op = "add"
    /\ session["s1"].node_id = session["s2"].node_id
    /\ session["s1"].value_ids = session["s2"].value_ids
    /\ Len(session["s1"].value_ids) = 2
    /\ \A v \in SetOf(session["s1"].value_ids) :
          PairRows(pillarNodeValueMapping, session["s1"].node_id, v) # {}

\* ------------------------------------------------------------------ C26

\* C26: the inserted_count add_mappings returns is the number of mappings
\* that did not exist before the call and exist after it (mappings that
\* existed are ignored, not counted), it is never negative, and every value
\* id whose insert failed is in skipped_ids.
C26_InsertedCountsNewMappings ==
    [][\A s \in Sessions : AddStep(s) =>
          /\ session'[s].inserted =
                Cardinality(Pairs(pillarNodeValueMapping') \ Pairs(pillarNodeValueMapping))
          /\ session'[s].inserted >= 0
          /\ \A vid \in SetOf(session[s].value_ids) :
                <<session[s].node_id, vid>> \notin Pairs(pillarNodeValueMapping')
                    => vid \in SetOf(session'[s].skipped)]_vars

\* ================================================================== the selections editor

\* the texts typed into "Filter nodes/values", stripped and in lower case
SaveFilters == {"", "e", "ten", "five"}
\* the session of the operator who maps and unmaps values meanwhile
MapSession == "s2"

\* "filter_text in text" for the names and filter texts at hand: every name
\* has an "e", and no name is part of another
Contains(txt, f) == f = "e" \/ f = txt

\* the name of the stored value with the id
NameOfValue(v) == (CHOOSE x \in pillarNodeValue : x.id = v).pillarNodeValue

\* the node is not skipped by the filter: the text matches the node or one
\* of its mapped values
NodeShown(node, f) ==
    \/ f = ""
    \/ Contains(node.pillarNode, f)
    \/ \E v \in fetch_values_for_node(node.id) : Contains(NameOfValue(v), f)

\* values_df of the node as the selectbox gets it: with a filter text, the
\* mapped values that match it
ValuesShown(node, f) ==
    IF f = "" THEN fetch_values_for_node(node.id)
    ELSE {v \in fetch_values_for_node(node.id) : Contains(NameOfValue(v), f)}

\* what sel can be for the node: None without values, else N/A or a value
Options(node, f) ==
    IF ValuesShown(node, f) = {} THEN {None}
    ELSE {None} \cup {Some(v) : v \in ValuesShown(node, f)}

\* sel when the selectbox is left as rendered: the stored value when it is
\* among the shown values, else N/A (index 0)
DefaultChoice(pref_map, node, f) ==
    IF ValuesShown(node, f) = {} THEN None
    ELSE LET current_vid == DictGet(pref_map, node.id)
         IN  IF current_vid # None /\ current_vid[1] \in ValuesShown(node, f)
             THEN current_vid
             ELSE None

\* the nodes the editor shows under the filter
ShownNodes(f) == {n.id : n \in {x \in pillarNode : NodeShown(x, f)}}

\* the row of the node with the id
NodeOf(id) == CHOOSE x \in pillarNode : x.id = id

\* changes when every selectbox is left as rendered
DefaultChanges(T, u, ds, f) ==
    [n \in ShownNodes(f) |-> DefaultChoice(PrefMapOf(T, u, ds), NodeOf(n), f)]

RECURSIVE SaveLoop(_, _, _, _, _, _)
\* "for ch in changes" of Save selections, on preference table T
SaveLoop(T, pref_map, u, ds, changes, todo) ==
    IF todo = {} THEN T
    ELSE LET nid == CHOOSE n \in todo : \A m \in todo : n <= m
             vid == changes[nid]
             T1 == IF vid = None
                   THEN IF DictGet(pref_map, nid) # None
                        THEN DeletePref(T, u, ds, nid)
                        ELSE T
                   ELSE MergePref(T, u, ds, nid, vid[1])
         IN  SaveLoop(T1, pref_map, u, ds, changes, todo \ {nid})

\* the preference table after Save selections with the changes
SaveChanges(T, u, ds, changes) ==
    SaveLoop(T, PrefMapOf(T, u, ds), u, ds, changes, DOMAIN changes)

\* the editor is drawn under the filter, the operator sets the selectboxes
\* (or leaves them), and presses "Save selections"
SaveSelections(u, ds, f, changes) ==
    /\ DOMAIN changes = ShownNodes(f)
    /\ \A n \in DOMAIN changes : changes[n] \in Options(NodeOf(n), f)
    /\ userNodePreference' = SaveChanges(userNodePreference, u, ds, changes)
    /\ UNCHANGED <<warningRule, warningRuleCondition, evalstate, history, admin>>

\* every value is mapped to every node and nothing is selected
InitSave ==
    /\ warningRule = {}
    /\ warningRuleCondition = {}
    /\ userNodePreference = {}
    /\ pc = "idle"
    /\ IdleLocals
    /\ before = NoHistory
    /\ prev = NoHistory
    /\ category = {[id |-> 1, category |-> "category"]}
    /\ subCategory = {[id |-> 1, category_id |-> 1, subCategory |-> "subcategory"]}
    /\ pillarNode = {NodeRow(n) : n \in Nodes}
    /\ pillarNodeValue = {ValueRow(v) : v \in Values}
    /\ pillarNodeValueMapping = {MappingRow(n, v) : n \in Nodes, v \in Values}
    /\ session = [s \in Sessions |-> Idle]

NextSave ==
    \/ \E u \in Users, f \in SaveFilters, D \in SUBSET Nodes :
          \E changes \in [D -> OptionalOf(Values)] :
              SaveSelections(u, PrefSource, f, changes)
    \/ \E n \in Nodes, q \in Lists(Values) : MappingsRender(MapSession, n, q)
    \/ AddSelected(MapSession)
    \/ \E n \in Nodes, q \in Lists(Values) : RemoveSelected(MapSession, n, q)

SpecSave == InitSave /\ [][NextSave]_vars

\* ------------------------------------------------------------------ C29

\* C29: "Save selections" pressed while every selectbox is left at its
\* rendered default leaves the stored selections of (user, active source)
\* unchanged, whatever the filter text and whatever values are mapped: no
\* stored selection is cleared unless the operator chose N/A for it.
C29_SaveOfDefaultsChangesNothing ==
    [][\A u \in Users, f \in SaveFilters :
          userNodePreference' =
              SaveChanges(userNodePreference, u, PrefSource,
                          DefaultChanges(userNodePreference, u, PrefSource, f))
          => ContextRows(userNodePreference', u, PrefSource) =
                 ContextRows(userNodePreference, u, PrefSource)]_vars

\* ================================================================== the add forms

\* rows of each taxonomy table, and ids its IDENTITY column gives, in SpecTax
MaxTaxRows == 2
\* the names typed into the add forms
TaxNames == {"", "B", "B "}

\* LTRIM(RTRIM(x)) = LTRIM(RTRIM(:name))
SameTrimmed(x, name) == Strip(x) = Strip(name)

\* category_exists(name)
category_exists(name) == \E c \in category : SameTrimmed(c.category, name)

\* subcategory_exists(category_id, name)
subcategory_exists(category_id, name) ==
    \E sc \in subCategory :
        sc.category_id = category_id /\ SameTrimmed(sc.subCategory, name)

\* pillar_node_exists(subcat_id, name)
pillar_node_exists(subcat_id, name) ==
    \E n \in pillarNode :
        n.subCategory_id = subcat_id /\ SameTrimmed(n.pillarNode, name)

\* value_exists(name)
value_exists(name) == \E v \in pillarNodeValue : SameTrimmed(v.pillarNodeValue, name)

\* the form found no row of the name and goes on to its INSERT
Checked(tbl, parent, name) ==
    [pc |-> "insert", table |-> tbl, parent |-> parent, name |-> name]

\* the form "Add category" up to category_exists, read in a transaction of
\* its own: a blank name and a name that exists end the run with a message
AddCategoryCheck(s, new_cat) ==
    /\ session[s].pc = "idle"
    /\ Strip(new_cat) # ""
    /\ ~category_exists(Strip(new_cat))
    /\ session' = [session EXCEPT ![s] = Checked("category", 0, Strip(new_cat))]
    /\ UNCHANGED <<store, evalstate, history, taxonomy>>

\* the form "Add subcategory" for the selected category, up to
\* subcategory_exists
AddSubcategoryCheck(s, selected_category_id, new_sub) ==
    /\ session[s].pc = "idle"
    /\ \E c \in category : c.id = selected_category_id
    /\ Strip(new_sub) # ""
    /\ ~subcategory_exists(selected_category_id, Strip(new_sub))
    /\ session' = [session EXCEPT ![s] =
          Checked("subCategory", selected_category_id, Strip(new_sub))]
    /\ UNCHANGED <<store, evalstate, history, taxonomy>>

\* the form "Add pillar node" for the selected subcategory, up to
\* pillar_node_exists
AddNodeCheck(s, sub_id, name) ==
    /\ session[s].pc = "idle"
    /\ \E sc \in subCategory : sc.id = sub_id
    /\ Strip(name) # ""
    /\ ~pillar_node_exists(sub_id, Strip(name))
    /\ session' = [session EXCEPT ![s] = Checked("pillarNode", sub_id, Strip(name))]
    /\ UNCHANGED <<store, evalstate, history, taxonomy>>

\* the form "Add value", up to value_exists
AddValueCheck(s, name) ==
    /\ session[s].pc = "idle"
    /\ Strip(name) # ""
    /\ ~value_exists(Strip(name))
    /\ session' = [session EXCEPT ![s] = Checked("pillarNodeValue", 0, Strip(name))]
    /\ UNCHANGED <<store, evalstate, history, taxonomy>>

\* insert_category / insert_subcategory / insert_pillar_node / insert_value:
\* the INSERT of the form, in its own transaction
InsertCommit(s) ==
    /\ session[s].pc = "insert"
    /\ NewId(CASE session[s].table = "category" -> category
              [] session[s].table = "subCategory" -> subCategory
              [] session[s].table = "pillarNode" -> pillarNode
              [] OTHER -> pillarNodeValue) <= MaxTaxRows
    /\ LET tbl == session[s].table
           parent == session[s].parent
           name == session[s].name
       IN  /\ category' =
                 IF tbl = "category"
                 THEN category \cup {[id |-> NewId(category), category |-> name]}
                 ELSE category
           /\ subCategory' =
                 IF tbl = "subCategory"
                 THEN subCategory \cup {[id |-> NewId(subCategory),
                                         category_id |-> parent, subCategory |-> name]}
                 ELSE subCategory
           /\ pillarNode' =
                 IF tbl = "pillarNode"
                 THEN pillarNode \cup {[id |-> NewId(pillarNode),
                                        subCategory_id |-> parent, pillarNode |-> name]}
                 ELSE pillarNode
           /\ pillarNodeValue' =
                 IF tbl = "pillarNodeValue"
                 THEN pillarNodeValue \cup {[id |-> NewId(pillarNodeValue),
                                             pillarNodeValue |-> name]}
                 ELSE pillarNodeValue
    /\ session' = [session EXCEPT ![s] = Idle]
    /\ UNCHANGED <<store, evalstate, history, pillarNodeValueMapping>>

InitTax ==
    /\ warningRule = {}
    /\ warningRuleCondition = {}
    /\ userNodePreference = {}
    /\ pc = "idle"
    /\ IdleLocals
    /\ before = NoHistory
    /\ prev = NoHistory
    /\ AdminIdle

NextTax ==
    \E s \in Sessions :
        \/ \E name \in TaxNames : AddCategoryCheck(s, name)
        \/ \E c \in category, name \in TaxNames : AddSubcategoryCheck(s, c.id, name)
        \/ \E sc \in subCategory, name \in TaxNames : AddNodeCheck(s, sc.id, name)
        \/ \E name \in TaxNames : AddValueCheck(s, name)
        \/ InsertCommit(s)

SpecTax == InitTax /\ [][NextTax]_vars

\* ------------------------------------------------------------------ C30

\* C30: after any interleaving of the add-category, add-subcategory,
\* add-pillar-node and add-value flows of concurrent operators (existence
\* check, then insert, in separate transactions), no two categories, no two
\* subcategories of one category, no two pillar nodes of one subcategory
\* and no two values have the same whitespace-trimmed name.
C30_NamesAreUnique ==
    /\ \A a, b \in category : Strip(a.category) = Strip(b.category) => a = b
    /\ \A a, b \in subCategory :
          (a.category_id = b.category_id /\ Strip(a.subCategory) = Strip(b.subCategory))
              => a = b
    /\ \A a, b \in pillarNode :
          (a.subCategory_id = b.subCategory_id /\ Strip(a.pillarNode) = Strip(b.pillarNode))
              => a = b
    /\ \A a, b \in pillarNodeValue :
          Strip(a.pillarNodeValue) = Strip(b.pillarNodeValue) => a = b

====
